---- MODULE Spec2Model ----
(***************************************************************************)
(* The strategy ladder of the mempool executor                             *)
(* (proxy/mempool/neon_tx_sender.py, NeonTxSendStrategyExecutor).          *)
(*                                                                         *)
(* One execution context (NeonTxSendCtx) is driven by successive calls of  *)
(* NeonTxSendStrategyExecutor.execute().  Every call of a collaborator     *)
(* (a strategy method, the Emulator, the Chain RPC that reads the sender's *)
(* nonce) is one step of the model; what the collaborator answers (a       *)
(* value or a raised exception) is chosen nondeterministically.  The       *)
(* Chain RPC get_state_tx_cnt is taken to answer with a value.             *)
(***************************************************************************)
EXTENDS Integers, Sequences, FiniteSets, TLC

\* ---------------------------------------------------------------- bounds
\* number of execute() calls made on the one context
MaxCalls == 2
\* config.retry_on_fail is drawn from 0..MaxRetryOnFail
MaxRetryOnFail == 2
\* the tx nonce is drawn from 1..MaxNonce, the Chain's answer from 0..MaxNonce+1
MaxNonce == 1

\* len(_strategy_list)
LadderLen == 10

Sender == "sender"

\* ------------------------------------------------------------ exceptions
Exc(k) == [kind |-> k, args |-> <<>>]
NoExc == Exc("None")
Ok == Exc("Ok")
RescheduleError == Exc("Reschedule")
WrongStrategyError == Exc("WrongStrategy")
OtherError == Exc("Other")
NoMoreRetriesError == Exc("NoMoreRetries")
BigTxError == Exc("BigTx")
NonceTooHighError == Exc("NonceTooHigh")
NonceTooLowError(addr, tx_nonce, cnt) == [kind |-> "NonceTooLow", args |-> <<addr, tx_nonce, cnt>>]

\* what a collaborator (strategy method, Emulator) can raise
CollaboratorErrors == {RescheduleError, WrongStrategyError, OtherError}
\* what strategy.cancel() can do: return, or raise
CancelFailedError == Exc("CancelFailed")
CancelResults == {NoExc, RescheduleError, CancelFailedError}
\* the emulated result of the context: the one the request came with, or one
\* the ladder obtained from the Emulator (its content is never read by the ladder)
EmulatedResults == {"from_request", "from_emulator"}
ChainCounts == 0..(MaxNonce + 1)

VARIABLES
    \* NeonTxSendCtx
    strategy_idx, completed, state_tx_cnt, emulated_result,
    nonce, is_stuck_tx, retry_on_fail,
    \* the position inside execute() / _execute()
    pc, cur, retry, has_changes, exc, pending,
    \* what the caller of execute() got from the last finished call
    result,
    \* history
    calls, attempts, lastOp, orig_exc, cancelled, cancel_exc, cancel_cnt,
    fresh, completed_idx, preps, updates, refreshed

ctxVars == <<strategy_idx, completed, state_tx_cnt, emulated_result, nonce, is_stuck_tx, retry_on_fail>>
posVars == <<pc, cur, retry, has_changes, exc, pending>>
histVars == <<calls, attempts, lastOp, orig_exc, cancelled, cancel_exc, cancel_cnt, fresh, completed_idx, preps, updates, refreshed>>
ladderVars == <<ctxVars, posVars, result, histVars>>

\* NeonRpcApiWorker.eth_sendRawTransaction and what it reads
VARIABLES
    \* the indexer DB has the tx, the mempool knows the tx, the sender's nonce on the Chain
    db_has_tx, mp_knows_tx, chain_cnt,
    \* the nonce of the submitted tx
    s_nonce,
    \* the position inside eth_sendRawTransaction, the failure its handler caught,
    \* what the RPC client got
    s_pc, s_err, s_out,
    \* history of the call: the mempool's answer, the two _is_neon_tx_exist calls
    \* (what they saw, what they answered), whether the exec cfg was obtained,
    \* whether send_raw_transaction was called
    s_code, s_code_cnt, s_seen1, s_exist1, s_seen2, s_exist2, s_cfg_ok, s_submitted

sendVars == <<db_has_tx, mp_knows_tx, chain_cnt, s_nonce, s_pc, s_err, s_out,
              s_code, s_code_cnt, s_seen1, s_exist1, s_seen2, s_exist2, s_cfg_ok, s_submitted>>

\* NeonRpcApiWorker's two caches keyed by the wall-clock second
VARIABLES
    \* math.ceil(time.time())
    now,
    \* the worker's fields, the contents of the ElfParams singleton, the config flags
    gas_price_value, last_gas_price_time, elf_param_dict, last_elf_params_time,
    enable_send_tx_api, enable_private_api,
    \* history of the last read: which cache ("gas", "api"), the method asked about,
    \* whether the mempool RPC was made and what it returned, what the caller got,
    \* the cached value before the read, whether the cache had been refreshed
    \* earlier in this same second
    c_op, c_method, c_rpc, c_res, c_out, c_prev, c_fresh,
    \* the second of the last successful refresh of each cache (0: never)
    gas_ok_time, elf_ok_time

cacheVars == <<now, gas_price_value, last_gas_price_time, elf_param_dict, last_elf_params_time,
               enable_send_tx_api, enable_private_api,
               c_op, c_method, c_rpc, c_res, c_out, c_prev, c_fresh, gas_ok_time, elf_ok_time>>

\* NeonRpcApiWorker.eth_call
VARIABLES
    \* the position inside eth_call, its local retry_idx, what the caller got
    e_pc, retry_idx, e_out,
    \* history: the calls made, the Emulator invocations of the running call,
    \* what the last invocation gave
    e_calls, e_emulations, e_last

callVars == <<e_pc, retry_idx, e_out, e_calls, e_emulations, e_last>>

\* NeonRpcApiWorker.eth_getTransactionCount
VARIABLES
    \* the position inside the call, its arguments' tag, its locals, what the caller got
    t_pc, t_tag, t_commitment, t_pending_nonce, t_out,
    \* the mempool RPC made and its answer, the sender's nonce on the Chain at
    \* each commitment, whether a read raised
    t_mp_rpc, t_chain, t_failed

countVars == <<t_pc, t_tag, t_commitment, t_pending_nonce, t_out, t_mp_rpc, t_chain, t_failed>>

\* NeonRpcApiWorker.proxy_id_glob and the workers under construction
VARIABLES
    \* proxy_id_glob.value, the owner of its lock (0: free)
    p_value, p_lock,
    \* per worker: the position inside __init__, self.proxy_id (-1: not assigned),
    \* the value read by `value += 1`
    p_pc, p_id, p_tmp

proxyVars == <<p_value, p_lock, p_pc, p_id, p_tmp>>

\* IndexerBase.__init__
VARIABLES
    \* config.start_slot, last_slot, the finalized slot, the first available block
    x_cfg, x_last, x_finalized, x_first,
    \* the position inside __init__, what _get_start_slot returned, self._start_slot
    x_pc, x_resolved, x_start_slot

startVars == <<x_cfg, x_last, x_finalized, x_first, x_pc, x_resolved, x_start_slot>>

\* IndexerBase.run
VARIABLES
    \* the position inside the loop, whether the loop is still running
    l_pc, l_running,
    \* history: calls of process_functions, warnings logged, sleeps, the outcome
    \* of the last call
    l_calls, l_logs, l_sleeps, l_last

loopVars == <<l_pc, l_running, l_calls, l_logs, l_sleeps, l_last>>

\* NeonIxBuilder.init_neon_tx_sig
VARIABLES
    \* the hex signature, ElfParams().treasury_pool_max
    b_sig, b_pool_max,
    \* the position, self._neon_tx_sig, self._treasury_pool_index_buf
    b_pc, b_sig_bytes, b_buf

builderVars == <<b_sig, b_pool_max, b_pc, b_sig_bytes, b_buf>>

rpcVars == <<sendVars, cacheVars, callVars, countVars, proxyVars>>
otherVars == <<startVars, loopVars, builderVars>>
notLadderVars == <<rpcVars, otherVars>>
vars == <<ladderVars, rpcVars, otherVars>>

MaxWorkers == 4
Workers == 1..MaxWorkers

\* the worker's handlers at rest (the ladder runs in the mempool's executor)
SendAtRest ==
    /\ db_has_tx = FALSE
    /\ mp_knows_tx = FALSE
    /\ chain_cnt = 0
    /\ s_nonce = 1
    /\ s_pc = "idle"
    /\ s_err = NoExc
    /\ s_out = NoExc
    /\ s_code = "None"
    /\ s_code_cnt = 0
    /\ s_seen1 = <<>>
    /\ s_exist1 = NoExc
    /\ s_seen2 = <<>>
    /\ s_exist2 = NoExc
    /\ s_cfg_ok = FALSE
    /\ s_submitted = FALSE

\* ------------------------------------------------------ pure parts of the code
\* execute(): `if not self._ctx.has_completed_receipt(): self._validate_nonce()`
NeedValidateNonce_never(done) == FALSE
NeedValidateNonce(done) == ~done

\* execute(): `start = self._ctx.strategy_idx`
start_previous == IF strategy_idx > 0 THEN strategy_idx - 1 ELSE strategy_idx
start == strategy_idx

\* _validate_nonce(): the failure raised for a freshly read state_tx_cnt, or none
ValidateNonce_swapped(cnt, tx_nonce) ==
    IF cnt = tx_nonce THEN NoExc
    ELSE IF cnt > tx_nonce THEN NonceTooHighError
    ELSE NonceTooLowError(Sender, tx_nonce, cnt)
ValidateNonce(cnt, tx_nonce) ==
    IF cnt = tx_nonce THEN NoExc
    ELSE IF cnt < tx_nonce THEN NonceTooHighError
    ELSE NonceTooLowError(Sender, tx_nonce, cnt)

\* MPTxExecRequest.is_stuck_tx(): `return self.neon_tx is None`
NeonTxOfRequest == {"None", "neon_tx"}
IsStuckTx(neon_tx) == neon_tx = "None"

\* _emulate_neon_tx(): `if self._ctx.is_stuck_tx(): return`
SkipEmulation_never(stuck) == FALSE
SkipEmulation(stuck) == stuck

\* _execute(): `for retry in range(retry_on_fail)`: is there another round
HasRetry_offByOne(r, limit) == r <= limit
HasRetry(r, limit) == r < limit

\* _execute(): `if has_changes or (retry == 0)`
NeedUpdate_onlyOnChanges(hc, r) == hc
NeedUpdate(hc, r) == hc \/ r = 0

\* _execute(): the finally after strategy.execute():
\* `if strategy.has_completed_receipt(): self._ctx.set_completed_receipt(True)`
CompletedAfter_overwrites(done, reported) == reported
CompletedAfter(done, reported) == done \/ reported

\* _execute(): `if not self._ctx.has_completed_receipt(): self._emulate_neon_tx()`
NeedEmulate_always(done) == TRUE
NeedEmulate(done) == ~done

\* execute(): the except clauses; what the ladder does with a failure e of the
\* attempt: "raise" (propagate), "continue" (next strategy), "cancel" (cancel, then raise)
Handler_ignoresReceipt(e, done) ==
    IF e.kind = "Reschedule" THEN "raise"
    ELSE IF e.kind = "WrongStrategy" THEN "continue"
    ELSE "cancel"
Handler_cancelsReschedule(e, done) ==
    IF e.kind = "WrongStrategy" THEN (IF ~done THEN "continue" ELSE "cancel")
    ELSE "cancel"
Handler_noCancel(e, done) ==
    IF e.kind = "Reschedule" THEN "raise"
    ELSE IF e.kind = "WrongStrategy" THEN (IF ~done THEN "continue" ELSE "cancel")
    ELSE "raise"
Handler_continuesOnAny(e, done) ==
    IF e.kind = "Reschedule" THEN "raise"
    ELSE IF ~done THEN "continue" ELSE "cancel"
Handler_raisesNonce(e, done) ==
    IF e.kind = "Reschedule" THEN "raise"
    ELSE IF e.kind = "WrongStrategy" THEN (IF ~done THEN "continue" ELSE "cancel")
    ELSE IF e.kind \in {"NonceTooLow", "NonceTooHigh"} THEN "raise"
    ELSE "cancel"
Handler(e, done) ==
    IF e.kind = "Reschedule" THEN "raise"
    ELSE IF e.kind = "WrongStrategy" THEN (IF ~done THEN "continue" ELSE "cancel")
    ELSE "cancel"

\* execute(): how the try block is left once the except clause is done: the
\* `continue` of the WrongStrategyError clause, or the `raise` that ends every
\* other clause (after _cancel(strategy) where the clause cancels)
LeaveWith_continuesAfterCancel(h) == IF h = "raise" THEN "raise" ELSE "continue"
LeaveWith(h) == IF h = "continue" THEN "continue" ELSE "raise"

\* _cancel(): the failure in flight after strategy.cancel() answered c while e was
\* being handled (a Reschedule of cancel() is re-raised, anything else is logged)
AfterCancel_raisesAll(e, c) == IF c = NoExc THEN e ELSE c
AfterCancel(e, c) == IF c.kind = "Reschedule" THEN c ELSE e

\* -------------------------------------------------------------------- Init
InitLadder ==
    /\ strategy_idx = 0
    /\ completed = FALSE
    /\ state_tx_cnt = 0
    /\ emulated_result = "from_request"
    /\ nonce \in 1..MaxNonce
    /\ is_stuck_tx \in {IsStuckTx(tx) : tx \in NeonTxOfRequest}
    /\ retry_on_fail \in 0..MaxRetryOnFail
    /\ pc = "idle"
    /\ cur = 0
    /\ retry = 0
    /\ has_changes = FALSE
    /\ exc = NoExc
    /\ pending = "none"
    /\ result = NoExc
    /\ calls = 0
    /\ attempts = 0
    /\ lastOp = "none"
    /\ orig_exc = NoExc
    /\ cancelled = FALSE
    /\ cancel_exc = NoExc
    /\ cancel_cnt = 0
    /\ fresh = FALSE
    /\ completed_idx = -1
    /\ preps = 0
    /\ updates = 0
    /\ refreshed = FALSE

\* NeonRpcApiWorker.__init__, no cache read yet
CacheAtRest ==
    /\ now = 1
    /\ gas_price_value = NoExc
    /\ last_gas_price_time = 0
    /\ elf_param_dict = NoExc
    /\ last_elf_params_time = 0
    /\ enable_send_tx_api = FALSE
    /\ enable_private_api = FALSE
    /\ c_op = "none"
    /\ c_method = <<>>
    /\ c_rpc = FALSE
    /\ c_res = NoExc
    /\ c_out = NoExc
    /\ c_prev = NoExc
    /\ c_fresh = FALSE
    /\ gas_ok_time = 0
    /\ elf_ok_time = 0

\* no eth_call running
CallAtRest ==
    /\ e_pc = "idle"
    /\ retry_idx = 0
    /\ e_out = NoExc
    /\ e_calls = 0
    /\ e_emulations = 0
    /\ e_last = NoExc

\* no eth_getTransactionCount running
CountAtRest ==
    /\ t_pc = "idle"
    /\ t_tag = "none"
    /\ t_commitment = "Confirmed"
    /\ t_pending_nonce = <<>>
    /\ t_out = NoExc
    /\ t_mp_rpc = <<>>
    /\ t_chain = [c \in {"Processed", "Confirmed", "Finalized"} |-> 0]
    /\ t_failed = FALSE

\* no worker under construction
ProxyAtRest ==
    /\ p_value = 0
    /\ p_lock = 0
    /\ p_pc = [w \in Workers |-> "new"]
    /\ p_id = [w \in Workers |-> -1]
    /\ p_tmp = [w \in Workers |-> 0]

\* no indexer constructed
StartAtRest ==
    /\ x_cfg = <<>>
    /\ x_last = <<>>
    /\ x_finalized = 0
    /\ x_first = 0
    /\ x_pc = "new"
    /\ x_resolved = 0
    /\ x_start_slot = 0

\* the indexer loop not started
LoopAtRest ==
    /\ l_pc = "call"
    /\ l_running = TRUE
    /\ l_calls = 0
    /\ l_logs = 0
    /\ l_sleeps = 0
    /\ l_last = NoExc

\* no builder initialised
BuilderAtRest ==
    /\ b_sig = <<>>
    /\ b_pool_max = 1
    /\ b_pc = "new"
    /\ b_sig_bytes = <<>>
    /\ b_buf = <<>>

\* everything outside the executor and the three RPC handlers above at rest
OthersAtRest ==
    /\ CountAtRest
    /\ ProxyAtRest
    /\ StartAtRest
    /\ LoopAtRest
    /\ BuilderAtRest

Init ==
    /\ InitLadder
    /\ SendAtRest
    /\ CacheAtRest
    /\ CallAtRest
    /\ OthersAtRest

\* the executor at rest (the worker's handlers run in the RPC process)
LadderAtRest ==
    /\ InitLadder
    /\ nonce = 1
    /\ retry_on_fail = 0
    /\ ~is_stuck_tx

\* a failure of the running attempt reaches the except clauses of execute()
Raise(e, op) ==
    /\ exc' = e
    /\ orig_exc' = e
    /\ pc' = "except"
    /\ lastOp' = op
    /\ fresh' = FALSE

\* ------------------------------------------------------------------ actions
\* execute(), up to the loop: the caller calls execute() for the first time, or
\* again after a Reschedule; the nonce check, unless the receipt is completed
Enter ==
    /\ pc = "idle"
    /\ calls < MaxCalls
    /\ result \in {NoExc, RescheduleError}
    /\ calls' = calls + 1
    /\ attempts' = 0
    /\ cancel_cnt' = 0
    /\ cancelled' = FALSE
    /\ cancel_exc' = NoExc
    /\ orig_exc' = NoExc
    /\ exc' = NoExc
    /\ pending' = "none"
    /\ retry' = 0
    /\ has_changes' = FALSE
    /\ preps' = 0
    /\ updates' = 0
    /\ UNCHANGED <<strategy_idx, completed, emulated_result, nonce, is_stuck_tx, retry_on_fail, completed_idx>>
    /\ IF NeedValidateNonce(completed)
       THEN \E cnt \in ChainCounts :
              /\ state_tx_cnt' = cnt
              /\ fresh' = TRUE
              /\ refreshed' = TRUE
              /\ lastOp' = "validate_nonce"
              /\ IF ValidateNonce(cnt, nonce) = NoExc
                 THEN /\ cur' = start
                      /\ pc' = "loop"
                      /\ result' = NoExc
                 ELSE /\ cur' = cur
                      /\ pc' = "idle"
                      /\ result' = ValidateNonce(cnt, nonce)
       ELSE /\ UNCHANGED <<state_tx_cnt, fresh>>
            /\ refreshed' = FALSE
            /\ lastOp' = "enter"
            /\ cur' = start
            /\ pc' = "loop"
            /\ result' = NoExc

\* the head of `for strategy_idx in range(start, end)`: construct the next
\* strategy, or leave the loop and raise BigTxError
LoopNext ==
    /\ pc = "loop"
    /\ IF cur < LadderLen
       THEN /\ pc' = "validate"
            /\ attempts' = attempts + 1
            /\ lastOp' = "construct"
            /\ fresh' = FALSE
            /\ result' = result
       ELSE /\ pc' = "idle"
            /\ result' = BigTxError
            /\ UNCHANGED <<attempts, lastOp, fresh>>
    /\ orig_exc' = NoExc
    /\ cancelled' = FALSE
    /\ cancel_exc' = NoExc
    /\ exc' = NoExc
    /\ pending' = "none"
    /\ retry' = 0
    /\ has_changes' = FALSE
    /\ preps' = 0
    /\ updates' = 0
    /\ UNCHANGED <<ctxVars, cur, calls, cancel_cnt, completed_idx, refreshed>>

\* strategy.validate()
Validate ==
    /\ pc = "validate"
    /\ \/ /\ pc' = "init"
          /\ lastOp' = "validate"
          /\ fresh' = FALSE
          /\ UNCHANGED <<exc, orig_exc, pending>>
       \/ /\ pc' = "finally"
          /\ pending' = "continue"
          /\ lastOp' = "validate"
          /\ fresh' = FALSE
          /\ UNCHANGED <<exc, orig_exc>>
       \/ /\ \E e \in CollaboratorErrors : Raise(e, "validate")
          /\ UNCHANGED pending
    /\ UNCHANGED <<ctxVars, cur, retry, has_changes, result, calls, attempts, cancelled, cancel_exc, cancel_cnt, completed_idx, preps, updates, refreshed>>

\* _execute(): strategy.complete_init(); ctx.set_strategy_idx(strategy_idx)
CompleteInit ==
    /\ pc = "init"
    /\ \/ /\ strategy_idx' = cur
          /\ retry' = 0
          /\ pc' = "retry"
          /\ lastOp' = "init"
          /\ fresh' = FALSE
          /\ UNCHANGED <<exc, orig_exc>>
       \/ /\ \E e \in CollaboratorErrors : Raise(e, "init")
          /\ UNCHANGED <<strategy_idx, retry>>
    /\ UNCHANGED <<completed, state_tx_cnt, emulated_result, nonce, is_stuck_tx, retry_on_fail>>
    /\ UNCHANGED <<cur, has_changes, pending, result, calls, attempts, cancelled, cancel_exc, cancel_cnt, completed_idx, preps, updates, refreshed>>

\* _execute(): the head of `for retry in range(retry_on_fail)`
RetryNext ==
    /\ pc = "retry"
    /\ IF HasRetry(retry, retry_on_fail)
       THEN /\ pc' = "prep"
            /\ UNCHANGED <<exc, orig_exc>>
       ELSE /\ pc' = "except"
            /\ exc' = NoMoreRetriesError
            /\ orig_exc' = NoMoreRetriesError
    /\ UNCHANGED <<ctxVars, cur, retry, has_changes, pending, result>>
    /\ UNCHANGED <<calls, attempts, lastOp, cancelled, cancel_exc, cancel_cnt, fresh, completed_idx, preps, updates, refreshed>>

\* strategy.prep_before_emulate()
Prep ==
    /\ pc = "prep"
    /\ preps' = preps + 1
    /\ \/ \E hc \in BOOLEAN :
            /\ has_changes' = hc
            /\ lastOp' = "prep"
            /\ fresh' = FALSE
            /\ pc' = IF NeedUpdate(hc, retry)
                     THEN (IF NeedEmulate(completed) THEN "emulate" ELSE "update")
                     ELSE "exec"
            /\ UNCHANGED <<exc, orig_exc>>
       \/ /\ \E e \in CollaboratorErrors : Raise(e, "prep")
          /\ UNCHANGED has_changes
    /\ UNCHANGED <<ctxVars, cur, retry, pending, result, calls, attempts, cancelled, cancel_exc, cancel_cnt, completed_idx, updates, refreshed>>

\* _emulate_neon_tx(): nothing for a stuck tx; else the Emulator's result
\* replaces the emulated result and the nonce is validated again
Emulate ==
    /\ pc = "emulate"
    /\ IF SkipEmulation(is_stuck_tx)
       THEN /\ pc' = "update"
            /\ UNCHANGED <<state_tx_cnt, emulated_result, exc, orig_exc, lastOp, fresh, refreshed>>
       ELSE \/ \E cnt \in ChainCounts :
                 /\ emulated_result' = "from_emulator"
                 /\ state_tx_cnt' = cnt
                 /\ refreshed' = TRUE
                 /\ IF ValidateNonce(cnt, nonce) = NoExc
                    THEN /\ pc' = "update"
                         /\ lastOp' = "emulate"
                         /\ fresh' = TRUE
                         /\ UNCHANGED <<exc, orig_exc>>
                    ELSE /\ pc' = "except"
                         /\ exc' = ValidateNonce(cnt, nonce)
                         /\ orig_exc' = ValidateNonce(cnt, nonce)
                         /\ lastOp' = "emulate"
                         /\ fresh' = TRUE
            \/ /\ \E e \in CollaboratorErrors : Raise(e, "emulate")
               /\ UNCHANGED <<state_tx_cnt, emulated_result, refreshed>>
    /\ UNCHANGED <<strategy_idx, completed, nonce, is_stuck_tx, retry_on_fail>>
    /\ UNCHANGED <<cur, retry, has_changes, pending, result, calls, attempts, cancelled, cancel_exc, cancel_cnt, completed_idx, preps, updates>>

\* strategy.update_after_emulate(); `if has_changes: continue`
Update ==
    /\ pc = "update"
    /\ updates' = updates + 1
    /\ \/ /\ lastOp' = "update"
          /\ fresh' = FALSE
          /\ IF has_changes
             THEN /\ retry' = retry + 1
                  /\ pc' = "retry"
             ELSE /\ retry' = retry
                  /\ pc' = "exec"
          /\ UNCHANGED <<exc, orig_exc>>
       \/ /\ \E e \in CollaboratorErrors : Raise(e, "update")
          /\ UNCHANGED retry
    /\ UNCHANGED <<ctxVars, cur, has_changes, pending, result, calls, attempts, cancelled, cancel_exc, cancel_cnt, completed_idx, preps, refreshed>>

\* strategy.execute() and the finally after it: the strategy's report of a
\* completed receipt is recorded in the context
Exec ==
    /\ pc = "exec"
    /\ \E sc \in BOOLEAN :
        /\ completed' = CompletedAfter(completed, sc)
        /\ completed_idx' = IF ~completed /\ sc THEN strategy_idx ELSE completed_idx
        /\ \/ /\ pc' = "finally"
              /\ pending' = "return"
              /\ lastOp' = "execute"
              /\ fresh' = FALSE
              /\ UNCHANGED <<exc, orig_exc>>
           \/ /\ \E e \in CollaboratorErrors : Raise(e, "execute")
              /\ UNCHANGED pending
    /\ UNCHANGED <<strategy_idx, state_tx_cnt, emulated_result, nonce, is_stuck_tx, retry_on_fail>>
    /\ refreshed' = FALSE
    /\ UNCHANGED <<cur, retry, has_changes, result, calls, attempts, cancelled, cancel_exc, cancel_cnt, preps, updates>>

\* the except clauses of execute()
Except ==
    /\ pc = "except"
    /\ \/ /\ Handler(exc, completed) = "raise"
          /\ pending' = LeaveWith("raise")
          /\ pc' = "finally"
          /\ exc' = exc
       \/ /\ Handler(exc, completed) = "continue"
          /\ pending' = LeaveWith("continue")
          /\ pc' = "finally"
          /\ exc' = NoExc
       \/ /\ Handler(exc, completed) = "cancel"
          /\ pending' = LeaveWith("cancel")
          /\ pc' = "cancel"
          /\ exc' = exc
    /\ UNCHANGED <<ctxVars, cur, retry, has_changes, result, histVars>>

\* _cancel(strategy), then `raise`
Cancel ==
    /\ pc = "cancel"
    /\ \E c \in CancelResults :
        /\ cancel_exc' = c
        /\ exc' = AfterCancel(exc, c)
    /\ cancelled' = TRUE
    /\ cancel_cnt' = cancel_cnt + 1
    /\ lastOp' = "cancel"
    /\ fresh' = FALSE
    /\ pc' = "finally"
    /\ UNCHANGED <<ctxVars, cur, retry, has_changes, pending, result, calls, attempts, orig_exc, completed_idx, preps, updates, refreshed>>

\* the finally clause of execute(): _init_state_tx_cnt(), and then what the
\* try block was leaving with
Finally_noRefreshOnContinue ==
    /\ pc = "finally"
    /\ IF pending = "continue"
       THEN UNCHANGED <<state_tx_cnt, fresh, lastOp, refreshed>>
       ELSE /\ \E cnt \in ChainCounts : state_tx_cnt' = cnt
            /\ fresh' = TRUE
            /\ refreshed' = TRUE
            /\ lastOp' = "refresh"
    /\ \/ /\ pending = "return"
          /\ result' = Ok
          /\ pc' = "idle"
          /\ cur' = cur
       \/ /\ pending = "raise"
          /\ result' = exc
          /\ pc' = "idle"
          /\ cur' = cur
       \/ /\ pending = "continue"
          /\ result' = result
          /\ pc' = "loop"
          /\ cur' = cur + 1
    /\ UNCHANGED <<strategy_idx, completed, emulated_result, nonce, is_stuck_tx, retry_on_fail>>
    /\ UNCHANGED <<retry, has_changes, exc, pending>>
    /\ UNCHANGED <<calls, attempts, orig_exc, cancelled, cancel_exc, cancel_cnt, completed_idx, preps, updates>>
Finally ==
    /\ pc = "finally"
    /\ \E cnt \in ChainCounts : state_tx_cnt' = cnt
    /\ fresh' = TRUE
    /\ refreshed' = TRUE
    /\ lastOp' = "refresh"
    /\ \/ /\ pending = "return"
          /\ result' = Ok
          /\ pc' = "idle"
          /\ cur' = cur
       \/ /\ pending = "raise"
          /\ result' = exc
          /\ pc' = "idle"
          /\ cur' = cur
       \/ /\ pending = "continue"
          /\ result' = result
          /\ pc' = "loop"
          /\ cur' = cur + 1
    /\ UNCHANGED <<strategy_idx, completed, emulated_result, nonce, is_stuck_tx, retry_on_fail>>
    /\ UNCHANGED <<retry, has_changes, exc, pending>>
    /\ UNCHANGED <<calls, attempts, orig_exc, cancelled, cancel_exc, cancel_cnt, completed_idx, preps, updates>>

Next ==
    \/ Enter /\ UNCHANGED notLadderVars
    \/ LoopNext /\ UNCHANGED notLadderVars
    \/ Validate /\ UNCHANGED notLadderVars
    \/ CompleteInit /\ UNCHANGED notLadderVars
    \/ RetryNext /\ UNCHANGED notLadderVars
    \/ Prep /\ UNCHANGED notLadderVars
    \/ Emulate /\ UNCHANGED notLadderVars
    \/ Update /\ UNCHANGED notLadderVars
    \/ Exec /\ UNCHANGED notLadderVars
    \/ Except /\ UNCHANGED notLadderVars
    \/ Cancel /\ UNCHANGED notLadderVars
    \/ Finally /\ UNCHANGED notLadderVars

Spec == Init /\ [][Next]_vars

\* ------------------------------------------------- eth_sendRawTransaction

\* what the RPC client gets
TxSig == Exc("hex_tx_sig")
EthereumError(message) == [kind |-> "EthereumError", args |-> <<message>>]
InvalidParamError(message) == [kind |-> "InvalidParamError", args |-> <<message>>]

\* MPTxSendResultCode
MPTxSendResultCode == {"Success", "NonceTooLow", "Underprice", "AlreadyKnown", "Unspecified"}

\* the answers of _is_neon_tx_exist that are not failures
ExistTrue == Exc("True")
ExistFalse == Exc("False")

\* what _get_neon_tx_exec_cfg and send_raw_transaction can fail with
PrecheckErrors == {EthereumError("transaction underpriced"), OtherError}
TransportErrors == {OtherError}

\* NeonTxNonceValidator.precheck: the tx nonce is below the sender's nonce on the Chain
NonceValidatorPrecheck(cnt, tx_nonce) ==
    IF cnt > tx_nonce THEN NonceTooLowError(Sender, tx_nonce, cnt) ELSE NoExc

IsNeonTxExist_noPrecheck(db, mp, cnt, tx_nonce) ==
    IF db THEN EthereumError("already known")
    ELSE IF mp THEN ExistTrue
    ELSE ExistFalse

\* _is_neon_tx_exist: its answer, or the failure it raises
IsNeonTxExist(db, mp, cnt, tx_nonce) ==
    IF db THEN EthereumError("already known")
    ELSE IF mp THEN ExistTrue
    ELSE IF NonceValidatorPrecheck(cnt, tx_nonce) # NoExc THEN NonceValidatorPrecheck(cnt, tx_nonce)
    ELSE ExistFalse

TranslateCode_onlySuccess(code, tx_nonce, cnt) ==
    IF code = "Success" THEN TxSig
    ELSE IF code = "Underprice" THEN EthereumError("replacement transaction underpriced")
    ELSE IF code = "NonceTooLow" THEN NonceTooLowError(Sender, tx_nonce, cnt)
    ELSE EthereumError("unknown error")

\* the if/elif chain on result.code: the signature, or the failure it raises
TranslateCode(code, tx_nonce, cnt) ==
    IF code \in {"Success", "AlreadyKnown"} THEN TxSig
    ELSE IF code = "Underprice" THEN EthereumError("replacement transaction underpriced")
    ELSE IF code = "NonceTooLow" THEN NonceTooLowError(Sender, tx_nonce, cnt)
    ELSE EthereumError("unknown error")

\* what a call of _is_neon_tx_exist reads
Seen == <<db_has_tx, mp_knows_tx, chain_cnt>>

InitSend ==
    /\ LadderAtRest
    /\ CacheAtRest
    /\ CallAtRest
    /\ OthersAtRest
    /\ db_has_tx = FALSE
    /\ mp_knows_tx \in BOOLEAN
    /\ chain_cnt \in ChainCounts
    /\ s_nonce \in 1..MaxNonce
    /\ s_pc = "idle"
    /\ s_err = NoExc
    /\ s_out = NoExc
    /\ s_code = "None"
    /\ s_code_cnt = 0
    /\ s_seen1 = <<>>
    /\ s_exist1 = NoExc
    /\ s_seen2 = <<>>
    /\ s_exist2 = NoExc
    /\ s_cfg_ok = FALSE
    /\ s_submitted = FALSE

envVars == <<db_has_tx, mp_knows_tx, chain_cnt>>
sendHist == <<s_code, s_code_cnt, s_seen1, s_exist1, s_seen2, s_exist2, s_cfg_ok, s_submitted>>

\* the call ends: the client gets the signature or the failure
Return(out) ==
    /\ s_pc' = "idle"
    /\ s_out' = out

\* the try block fails: the except BaseException handler runs
Caught(e) ==
    /\ s_pc' = "recheck"
    /\ s_err' = e
    /\ s_out' = s_out

\* _decode_neon_raw_tx, before the try block
Decode ==
    /\ s_pc = "idle"
    /\ s_out = NoExc
    /\ s_err' = NoExc
    /\ \/ s_pc' = "exist" /\ s_out' = NoExc
       \/ Return(InvalidParamError("wrong transaction format"))
    /\ UNCHANGED <<envVars, s_nonce, sendHist>>

\* the first _is_neon_tx_exist
ExistCheck ==
    /\ s_pc = "exist"
    /\ s_seen1' = Seen
    /\ s_exist1' = IsNeonTxExist(db_has_tx, mp_knows_tx, chain_cnt, s_nonce)
    /\ IF s_exist1' = ExistTrue THEN Return(TxSig) /\ s_err' = s_err
       ELSE IF s_exist1' = ExistFalse THEN s_pc' = "cfg" /\ UNCHANGED <<s_err, s_out>>
       ELSE Caught(s_exist1')
    /\ UNCHANGED <<envVars, s_nonce, s_code, s_code_cnt, s_seen2, s_exist2, s_cfg_ok, s_submitted>>

\* _get_neon_tx_exec_cfg: NeonTxValidator.precheck passes or raises
GetExecCfg ==
    /\ s_pc = "cfg"
    /\ \/ s_cfg_ok' = TRUE /\ s_pc' = "send" /\ UNCHANGED <<s_err, s_out>>
       \/ \E e \in PrecheckErrors : Caught(e) /\ s_cfg_ok' = s_cfg_ok
    /\ UNCHANGED <<envVars, s_nonce, s_code, s_code_cnt, s_seen1, s_exist1, s_seen2, s_exist2, s_submitted>>

\* send_raw_transaction and the translation of its result
SendRaw ==
    /\ s_pc = "send"
    /\ s_submitted' = TRUE
    /\ \/ \E code \in MPTxSendResultCode, cnt \in ChainCounts :
            /\ s_code' = code
            /\ s_code_cnt' = cnt
            /\ mp_knows_tx' = IF code \in {"Success", "AlreadyKnown"} THEN TRUE ELSE mp_knows_tx
            /\ IF TranslateCode(code, s_nonce, cnt) = TxSig
               THEN Return(TxSig) /\ s_err' = s_err
               ELSE Caught(TranslateCode(code, s_nonce, cnt))
       \/ \E e \in TransportErrors :
            /\ Caught(e)
            /\ UNCHANGED <<s_code, s_code_cnt, mp_knows_tx>>
    /\ UNCHANGED <<db_has_tx, chain_cnt, s_nonce, s_seen1, s_exist1, s_seen2, s_exist2, s_cfg_ok>>

\* except BaseException: the second _is_neon_tx_exist, then the bare raise
Recheck ==
    /\ s_pc = "recheck"
    /\ s_seen2' = Seen
    /\ s_exist2' = IsNeonTxExist(db_has_tx, mp_knows_tx, chain_cnt, s_nonce)
    /\ IF s_exist2' = ExistTrue THEN Return(TxSig)
       ELSE IF s_exist2' = ExistFalse THEN Return(s_err)
       ELSE Return(s_exist2')
    /\ UNCHANGED <<envVars, s_nonce, s_err, s_code, s_code_cnt, s_seen1, s_exist1, s_cfg_ok, s_submitted>>

\* meanwhile the indexer stores the tx, the mempool takes or drops it, the sender's
\* nonce on the Chain grows
Indexed ==
    /\ s_pc # "idle"
    /\ ~db_has_tx
    /\ db_has_tx' = TRUE
    /\ UNCHANGED <<mp_knows_tx, chain_cnt, s_nonce, s_pc, s_err, s_out, sendHist>>

MempoolChanged ==
    /\ s_pc # "idle"
    /\ mp_knows_tx' = ~mp_knows_tx
    /\ UNCHANGED <<db_has_tx, chain_cnt, s_nonce, s_pc, s_err, s_out, sendHist>>

ChainAdvanced ==
    /\ s_pc # "idle"
    /\ chain_cnt < MaxNonce + 1
    /\ chain_cnt' = chain_cnt + 1
    /\ UNCHANGED <<db_has_tx, mp_knows_tx, s_nonce, s_pc, s_err, s_out, sendHist>>

notSendVars == <<ladderVars, cacheVars, callVars, countVars, proxyVars, otherVars>>

NextSend ==
    \/ Decode /\ UNCHANGED notSendVars
    \/ ExistCheck /\ UNCHANGED notSendVars
    \/ GetExecCfg /\ UNCHANGED notSendVars
    \/ SendRaw /\ UNCHANGED notSendVars
    \/ Recheck /\ UNCHANGED notSendVars
    \/ Indexed /\ UNCHANGED notSendVars
    \/ MempoolChanged /\ UNCHANGED notSendVars
    \/ ChainAdvanced /\ UNCHANGED notSendVars

SpecSend == InitSend /\ [][NextSend]_vars

\* --------------------------------------------- gas price and EVM params

MaxTime == 2
MaxGasPrice == 2

\* Python's None
None == Exc("None")

\* what get_gas_price and get_elf_param_dict return when they return a value
MPGasPriceResult == {[kind |-> "MPGasPriceResult", args |-> <<g>>] : g \in 1..MaxGasPrice}
ElfParamDicts == {[kind |-> "elf_param_dict", args |-> <<v>>] : v \in {"compatible", "incompatible"}}

\* what is_allowed_api returns
ApiAllowed == Exc("True")
ApiDenied == Exc("False")

GasPriceFailed == EthereumError("Failed to calculate gas price. Try again later")
ElfParamsFailed == EthereumError("Failed to read Neon EVM params from Solana cluster. Try again later")
NotCompatible == EthereumError("Neon Proxy is not compatible with Neon EVM")

\* method names, split at the prefix
Method(prefix, name) == <<prefix, name>>
ApiPrefixes == {"eth_", "net_", "web3_", "neon_"}
ProxyVersionMethod == Method("neon_", "proxyVersion")
SendRawTxMethod == Method("eth_", "sendRawTransaction")
AlwaysAllowedMethods ==
    {Method("eth_", "chainId"), Method("neon_", "cliVersion"), Method("neon_", "evmVersion"),
     Method("neon_", "solanaVersion"), Method("neon_", "versions"), Method("neon_", "getEvmParams"),
     Method("net_", "version"), Method("web3_", "clientVersion")}
PrivateMethods ==
    {Method("eth_", "accounts"), Method("eth_", "sign"),
     Method("eth_", "sendTransaction"), Method("eth_", "signTransaction")}
Methods ==
    AlwaysAllowedMethods \cup PrivateMethods \cup
    {ProxyVersionMethod, SendRawTxMethod, Method("eth_", "call"), Method("net_", "peerCount"),
     Method("debug_", "traceTransaction")}

\* ElfParams.has_params, ElfParams.is_evm_compatible
HasParams(d) == d # None
IsEvmCompatible(d) == d = [kind |-> "elf_param_dict", args |-> <<"compatible">>]

\* the cache's test before the mempool RPC
NeedRefresh(last, t) == last # t

GasPriceAfterRefresh_overwrites(old, res) == res

\* _gas_price_value after get_gas_price returned res
GasPriceAfterRefresh(old, res) == IF res # None THEN res ELSE old

\* what _gas_price gives its caller
GasPriceRead(value) == IF value = None THEN GasPriceFailed ELSE value

HasApiPrefix(m) == m[1] \in ApiPrefixes

\* is_allowed_api before the refresh: an answer, or None to go on
BeforeRefresh(m) ==
    IF ~HasApiPrefix(m) THEN ApiDenied
    ELSE IF m = ProxyVersionMethod THEN ApiAllowed
    ELSE None

\* is_allowed_api, the refresh: the failure it raises on res, or None to go on
ElfRefresh(res) == IF res = None THEN ElfParamsFailed ELSE None

\* is_allowed_api after the refresh, on the params d of the ElfParams singleton
Gate(m, d, send, priv) ==
    IF m \in AlwaysAllowedMethods /\ HasParams(d) THEN ApiAllowed
    ELSE IF ~IsEvmCompatible(d) THEN NotCompatible
    ELSE IF m = SendRawTxMethod THEN (IF send THEN ApiAllowed ELSE ApiDenied)
    ELSE IF m \in PrivateMethods /\ (~send \/ ~priv) THEN ApiDenied
    ELSE ApiAllowed

InitCache ==
    /\ LadderAtRest
    /\ SendAtRest
    /\ CallAtRest
    /\ OthersAtRest
    /\ now = 1
    /\ gas_price_value = None
    /\ last_gas_price_time = 0
    /\ elf_param_dict = None
    /\ last_elf_params_time = 0
    /\ enable_send_tx_api \in BOOLEAN
    /\ enable_private_api \in BOOLEAN
    /\ c_op = "none"
    /\ c_method = <<>>
    /\ c_rpc = FALSE
    /\ c_res = None
    /\ c_out = NoExc
    /\ c_prev = None
    /\ c_fresh = FALSE
    /\ gas_ok_time = 0
    /\ elf_ok_time = 0

cfgVars == <<last_gas_price_time, last_elf_params_time, enable_send_tx_api, enable_private_api>>

\* the wall clock reaches the next second
Tick ==
    /\ now < MaxTime
    /\ now' = now + 1
    /\ UNCHANGED <<gas_price_value, elf_param_dict, cfgVars,
                   c_op, c_method, c_rpc, c_res, c_out, c_prev, c_fresh, gas_ok_time, elf_ok_time>>

\* a read of the _gas_price property
ReadGasPrice ==
    \E res \in {None} \cup MPGasPriceResult :
        LET rpc == NeedRefresh(last_gas_price_time, now)
            value == IF rpc THEN GasPriceAfterRefresh(gas_price_value, res) ELSE gas_price_value
        IN  /\ gas_price_value' = value
            /\ c_op' = "gas"
            /\ c_method' = <<>>
            /\ c_rpc' = rpc
            /\ c_res' = IF rpc THEN res ELSE None
            /\ c_out' = GasPriceRead(value)
            /\ c_prev' = gas_price_value
            /\ c_fresh' = (gas_ok_time = now)
            /\ gas_ok_time' = IF rpc /\ res # None THEN now ELSE gas_ok_time
            /\ UNCHANGED <<now, elf_param_dict, cfgVars, elf_ok_time>>

\* a call of is_allowed_api(method_name)
IsAllowedApi ==
    \E m \in Methods, res \in {None} \cup ElfParamDicts :
        LET early == BeforeRefresh(m)
            rpc == early = None /\ NeedRefresh(last_elf_params_time, now)
            failed == rpc /\ ElfRefresh(res) # None
            d == IF rpc /\ ~failed THEN res ELSE elf_param_dict
        IN  /\ elf_param_dict' = d
            /\ c_op' = "api"
            /\ c_method' = m
            /\ c_rpc' = rpc
            /\ c_res' = IF rpc THEN res ELSE None
            /\ c_out' = IF early # None THEN early
                        ELSE IF failed THEN ElfRefresh(res)
                        ELSE Gate(m, d, enable_send_tx_api, enable_private_api)
            /\ c_prev' = elf_param_dict
            /\ c_fresh' = (early = None /\ elf_ok_time = now)
            /\ elf_ok_time' = IF rpc /\ ~failed THEN now ELSE elf_ok_time
            /\ UNCHANGED <<now, gas_price_value, cfgVars, gas_ok_time>>

notCacheVars == <<ladderVars, sendVars, callVars, countVars, proxyVars, otherVars>>

NextCache ==
    \/ Tick /\ UNCHANGED notCacheVars
    \/ ReadGasPrice /\ UNCHANGED notCacheVars
    \/ IsAllowedApi /\ UNCHANGED notCacheVars

SpecCache == InitCache /\ [][NextCache]_vars

\* ----------------------------------------------------------- eth_call

\* the arguments of a call, as the checks before the try block tell them apart
CallArgs == {"bad_tag", "not_dict", "no_data", "ok"}

\* _validate_block_tag and the two checks of obj: the failure raised, or None
ValidateCall(a) ==
    IF a = "bad_tag" THEN InvalidParamError("invalid block tag")
    ELSE IF a = "not_dict" THEN InvalidParamError("invalid object type")
    ELSE IF a = "no_data" THEN InvalidParamError("missing data")
    ELSE None

InvalidParamErrors == {ValidateCall(a) : a \in CallArgs} \ {None}

\* emulator_json['result'] and what eth_call returns for it
EmulatedData == {"", "01", "c0de"}
ExitStatuses == {"succeed", "revert"}
EmulatorJson(status, data) == [kind |-> "emulator_json", args |-> <<status, data>>]
Hex0x(data) == [kind |-> "str", args |-> <<"0x", data>>]

\* what call_emulated gives: the Emulator's answer, or a failure
EmulatorOutcomes ==
    {EmulatorJson(st, data) : st \in ExitStatuses, data \in EmulatedData} \cup
    {RescheduleError, OtherError}

\* check_emulated_exit_status: the failure raised for the answer, or None
CheckExitStatus(json) ==
    IF json.args[1] = "succeed" THEN None ELSE EthereumError("execution reverted")

RetryAgain_inclusive(idx, limit) == idx <= limit

\* the test after retry_idx += 1
RetryAgain(idx, limit) == idx < limit

InitCall ==
    /\ InitLadder
    /\ nonce = 1
    /\ ~is_stuck_tx
    /\ SendAtRest
    /\ CacheAtRest
    /\ OthersAtRest
    /\ e_pc = "idle"
    /\ retry_idx = 0
    /\ e_out = NoExc
    /\ e_calls = 0
    /\ e_emulations = 0
    /\ e_last = NoExc

\* eth_call up to the while loop
EthCall ==
    /\ e_pc = "idle"
    /\ e_calls < MaxCalls
    /\ e_calls' = e_calls + 1
    /\ retry_idx' = 0
    /\ e_emulations' = 0
    /\ e_last' = NoExc
    /\ \E a \in CallArgs :
         IF ValidateCall(a) # None
         THEN e_pc' = "idle" /\ e_out' = ValidateCall(a)
         ELSE e_pc' = "emulate" /\ e_out' = NoExc

\* call_emulated, and the except RescheduleError clause
CallEmulated ==
    /\ e_pc = "emulate"
    /\ e_emulations' = e_emulations + 1
    /\ e_calls' = e_calls
    /\ \E o \in EmulatorOutcomes :
         /\ e_last' = o
         /\ IF o = RescheduleError
            THEN /\ retry_idx' = retry_idx + 1
                 /\ IF RetryAgain(retry_idx', retry_on_fail)
                    THEN e_pc' = "emulate" /\ e_out' = e_out
                    ELSE e_pc' = "idle" /\ e_out' = RescheduleError
            ELSE /\ retry_idx' = retry_idx
                 /\ IF o.kind = "emulator_json"
                    THEN e_pc' = "check" /\ e_out' = e_out
                    ELSE e_pc' = "idle" /\ e_out' = o

\* check_emulated_exit_status and the return
CheckEmulated ==
    /\ e_pc = "check"
    /\ e_pc' = "idle"
    /\ e_out' = IF CheckExitStatus(e_last) # None THEN CheckExitStatus(e_last)
                ELSE Hex0x(e_last.args[2])
    /\ UNCHANGED <<retry_idx, e_calls, e_emulations, e_last>>

notCallVars == <<ladderVars, sendVars, cacheVars, countVars, proxyVars, otherVars>>

NextCall ==
    \/ EthCall /\ UNCHANGED notCallVars
    \/ CallEmulated /\ UNCHANGED notCallVars
    \/ CheckEmulated /\ UNCHANGED notCallVars

SpecCall == InitCall /\ [][NextCall]_vars

\* ------------------------------------------------ eth_getTransactionCount

\* the tags as the code tells them apart ("0x1": a block number, "bad": rejected
\* by _validate_block_tag)
Tags == {"pending", "latest", "finalized", "safe", "earliest", "0x1", "bad"}
ValidTags == Tags \ {"bad"}

\* SolCommit
Commitments == {"Processed", "Confirmed", "Finalized"}

\* an Optional[int]: <<>> is None
Optional(S) == {<<>>} \cup {<<n>> : n \in S}

\* Python's hex()
HexDigits == <<"0", "1", "2", "3", "4", "5", "6", "7", "8", "9", "a", "b", "c", "d", "e", "f">>
RECURSIVE HexOf(_)
HexOf(n) == IF n < 16 THEN <<HexDigits[n + 1]>> ELSE HexOf(n \div 16) \o <<HexDigits[(n % 16) + 1]>>
Hex(n) == [kind |-> "str", args |-> <<"0x">> \o HexOf(n)]

\* the commitment chosen for the tag
CommitmentOf(tag) ==
    IF tag \in {"pending", "latest"} THEN "Processed"
    ELSE IF tag \in {"finalized", "safe"} THEN "Finalized"
    ELSE "Confirmed"

\* the mempool RPC made for the tag
MempoolRpcOf(tag) ==
    IF tag = "pending" THEN "get_pending_tx_nonce"
    ELSE IF tag = "latest" THEN "get_mempool_tx_nonce"
    ELSE "none"

\* `if pending_tx_nonce is None: pending_tx_nonce = 0`
OrZero(v) == IF v = <<>> THEN 0 ELSE v[1]

TxCount_chainOnly(tx_cnt, pending_tx_nonce) == tx_cnt

\* max(tx_cnt, pending_tx_nonce)
TxCount(tx_cnt, pending_tx_nonce) == IF tx_cnt >= pending_tx_nonce THEN tx_cnt ELSE pending_tx_nonce

InitCount ==
    /\ LadderAtRest
    /\ SendAtRest
    /\ CacheAtRest
    /\ CallAtRest
    /\ ProxyAtRest
    /\ StartAtRest
    /\ LoopAtRest
    /\ BuilderAtRest
    /\ t_pc = "idle"
    /\ t_tag = "none"
    /\ t_commitment = "Confirmed"
    /\ t_pending_nonce = <<>>
    /\ t_out = NoExc
    /\ t_mp_rpc = <<>>
    /\ t_chain \in {f \in [Commitments -> ChainCounts] :
                      f["Processed"] >= f["Confirmed"] /\ f["Confirmed"] >= f["Finalized"]}
    /\ t_failed = FALSE

\* the except (Exception,) clause: hex(0)
CountFailed ==
    /\ t_failed' = TRUE
    /\ t_out' = Hex(0)
    /\ t_pc' = "idle"

\* _validate_block_tag, before the try block
CountStart ==
    /\ t_pc = "idle"
    /\ t_out = NoExc
    /\ \E tag \in Tags :
         /\ t_tag' = tag
         /\ IF tag \notin ValidTags
            THEN t_pc' = "idle" /\ t_out' = InvalidParamError("invalid block tag")
            ELSE t_pc' = "mempool" /\ t_out' = NoExc
    /\ UNCHANGED <<t_commitment, t_pending_nonce, t_mp_rpc, t_chain, t_failed>>

\* the if/elif chain on the tag and `if pending_tx_nonce is None`
CountMempool ==
    /\ t_pc = "mempool"
    /\ t_commitment' = CommitmentOf(t_tag)
    /\ IF MempoolRpcOf(t_tag) = "none"
       THEN /\ t_pending_nonce' = <<OrZero(<<>>)>>
            /\ t_pc' = "chain"
            /\ UNCHANGED <<t_mp_rpc, t_out, t_failed>>
       ELSE \/ \E v \in Optional(ChainCounts) :
                 /\ t_mp_rpc' = <<MempoolRpcOf(t_tag), v>>
                 /\ t_pending_nonce' = <<OrZero(v)>>
                 /\ t_pc' = "chain"
                 /\ UNCHANGED <<t_out, t_failed>>
            \/ /\ CountFailed
               /\ t_mp_rpc' = <<MempoolRpcOf(t_tag), <<>>>>
               /\ t_pending_nonce' = t_pending_nonce
    /\ UNCHANGED <<t_tag, t_chain>>

\* get_state_tx_cnt at the commitment, max and hex
CountChain ==
    /\ t_pc = "chain"
    /\ \/ /\ t_out' = Hex(TxCount(t_chain[t_commitment], t_pending_nonce[1]))
          /\ t_pc' = "idle"
          /\ t_failed' = t_failed
       \/ CountFailed
    /\ UNCHANGED <<t_tag, t_commitment, t_pending_nonce, t_mp_rpc, t_chain>>

notCountVars == <<ladderVars, sendVars, cacheVars, callVars, proxyVars, otherVars>>

NextCount ==
    \/ CountStart /\ UNCHANGED notCountVars
    \/ CountMempool /\ UNCHANGED notCountVars
    \/ CountChain /\ UNCHANGED notCountVars

SpecCount == InitCount /\ [][NextCount]_vars

\* ------------------------------------------------- IndexerBase.__init__

MaxSlot == 3
Slots == 0..MaxSlot

\* strings as sequences of characters
LATEST == <<"L", "A", "T", "E", "S", "T">>
CONTINUE == <<"C", "O", "N", "T", "I", "N", "U", "E">>
DigitChars == <<"0", "1", "2", "3", "4", "5", "6", "7", "8", "9">>
IsDigit(ch) == \E d \in 1..10 : DigitChars[d] = ch
DigitVal(ch) == (CHOOSE d \in 1..10 : DigitChars[d] = ch) - 1

\* the values of config.start_slot: the two words, numbers within and above the
\* slots, a negative number, a word that is no number, the empty string
StartSlotConfigs ==
    {LATEST, CONTINUE, <<"-", "1">>, <<"x">>, <<>>} \cup
    {<<DigitChars[d + 1]>> : d \in Slots} \cup
    {<<"1", DigitChars[d + 1]>> : d \in Slots}

RECURSIVE DigitsVal(_)
DigitsVal(str) ==
    IF Len(str) = 0 THEN 0
    ELSE 10 * DigitsVal(SubSeq(str, 1, Len(str) - 1)) + DigitVal(str[Len(str)])

AllDigits(str) == Len(str) > 0 /\ \A i \in 1..Len(str) : IsDigit(str[i])

\* Python's int() on a string: <<n>>, or <<>> when it raises
IntOf(str) ==
    IF AllDigits(str) THEN <<DigitsVal(str)>>
    ELSE IF Len(str) > 1 /\ str[1] = "-" /\ AllDigits(Tail(str)) THEN <<0 - DigitsVal(Tail(str))>>
    ELSE IF Len(str) > 1 /\ str[1] = "+" /\ AllDigits(Tail(str)) THEN <<DigitsVal(Tail(str))>>
    ELSE <<>>

Min(a, b) == IF a <= b THEN a ELSE b
Max(a, b) == IF a >= b THEN a ELSE b

\* `0 if not isinstance(last_known_slot, int) else last_known_slot`
LastKnownSlot(last_slot) == IF last_slot = <<>> THEN 0 ELSE last_slot[1]

\* start_int_slot
StartIntSlot(start_slot, latest_slot) ==
    IF start_slot \notin {CONTINUE, LATEST} /\ IntOf(start_slot) # <<>>
    THEN Min(IntOf(start_slot)[1], latest_slot)
    ELSE 0

\* _get_start_slot
GetStartSlot(start_slot, last_slot, latest_slot) ==
    IF start_slot = CONTINUE /\ LastKnownSlot(last_slot) > 0 THEN LastKnownSlot(last_slot)
    ELSE IF start_slot \in {CONTINUE, LATEST} THEN latest_slot
    ELSE IF StartIntSlot(start_slot, latest_slot) < LastKnownSlot(last_slot) THEN LastKnownSlot(last_slot)
    ELSE StartIntSlot(start_slot, latest_slot)

StartSlotOf_ignoresFirst(start_slot, first_slot) == start_slot

\* self._start_slot
StartSlotOf(start_slot, first_slot) == Max(start_slot, first_slot)

InitStart ==
    /\ LadderAtRest
    /\ SendAtRest
    /\ CacheAtRest
    /\ CallAtRest
    /\ CountAtRest
    /\ ProxyAtRest
    /\ LoopAtRest
    /\ BuilderAtRest
    /\ x_cfg \in StartSlotConfigs
    /\ x_last \in Optional(Slots)
    /\ x_finalized \in Slots
    /\ x_first \in Slots
    /\ x_pc = "new"
    /\ x_resolved = 0
    /\ x_start_slot = 0

\* start_slot = self._get_start_slot(last_slot); get_block_slot may fail
ResolveStartSlot ==
    /\ x_pc = "new"
    /\ \/ /\ x_resolved' = GetStartSlot(x_cfg, x_last, x_finalized)
          /\ x_pc' = "resolved"
       \/ /\ x_pc' = "failed"
          /\ x_resolved' = x_resolved
    /\ UNCHANGED <<x_cfg, x_last, x_finalized, x_first, x_start_slot>>

\* first_slot = solana.get_first_available_block(); self._start_slot = max(...)
SetStartSlot ==
    /\ x_pc = "resolved"
    /\ \/ /\ x_start_slot' = StartSlotOf(x_resolved, x_first)
          /\ x_pc' = "started"
       \/ /\ x_pc' = "failed"
          /\ x_start_slot' = x_start_slot
    /\ UNCHANGED <<x_cfg, x_last, x_finalized, x_first, x_resolved>>

notStartVars == <<ladderVars, rpcVars, loopVars, builderVars>>

NextStart ==
    \/ ResolveStartSlot /\ UNCHANGED notStartVars
    \/ SetStartSlot /\ UNCHANGED notStartVars

SpecStart == InitStart /\ [][NextStart]_vars

\* ------------------------------------------------------ IndexerBase.run

MaxIters == 6

KeyboardInterrupt == Exc("KeyboardInterrupt")
SystemExit == Exc("SystemExit")

\* what process_functions() can raise, and NoExc when it returns
BaseExceptions == {OtherError, RescheduleError, KeyboardInterrupt, SystemExit}
ProcessOutcomes == {NoExc} \cup BaseExceptions

LoopCatches_onlyException(e) == e \in {OtherError, RescheduleError}

\* except BaseException
LoopCatches(e) == e \in BaseExceptions

InitLoop ==
    /\ LadderAtRest
    /\ SendAtRest
    /\ CacheAtRest
    /\ CallAtRest
    /\ CountAtRest
    /\ ProxyAtRest
    /\ StartAtRest
    /\ BuilderAtRest
    /\ l_pc = "call"
    /\ l_running = TRUE
    /\ l_calls = 0
    /\ l_logs = 0
    /\ l_sleeps = 0
    /\ l_last = NoExc

\* self.process_functions() inside the try
CallProcess ==
    /\ l_running
    /\ l_pc = "call"
    /\ l_calls < MaxIters
    /\ l_calls' = l_calls + 1
    /\ \E o \in ProcessOutcomes :
         /\ l_last' = o
         /\ IF o = NoExc THEN l_pc' = "sleep" /\ l_running' = l_running
            ELSE IF LoopCatches(o) THEN l_pc' = "log" /\ l_running' = l_running
            ELSE l_pc' = "raised" /\ l_running' = FALSE
    /\ UNCHANGED <<l_logs, l_sleeps>>

\* LOG.warning in the except clause
LogWarning ==
    /\ l_pc = "log"
    /\ l_logs' = l_logs + 1
    /\ l_pc' = "sleep"
    /\ UNCHANGED <<l_running, l_calls, l_sleeps, l_last>>

\* time.sleep(check_sec)
Sleep ==
    /\ l_pc = "sleep"
    /\ l_sleeps' = l_sleeps + 1
    /\ l_pc' = "call"
    /\ UNCHANGED <<l_running, l_calls, l_logs, l_last>>

notLoopVars == <<ladderVars, rpcVars, startVars, builderVars>>

NextLoop ==
    \/ CallProcess /\ UNCHANGED notLoopVars
    \/ LogWarning /\ UNCHANGED notLoopVars
    \/ Sleep /\ UNCHANGED notLoopVars

SpecLoop == InitLoop /\ [][NextLoop]_vars

\* ------------------------------------------ NeonIxBuilder.init_neon_tx_sig

\* the bytes of a signature in hex, two characters each; the fourth byte stays
\* below 0x80 so that the 32-bit value fits the checker's integers
SigBytePairs == {<<"0", "0">>, <<"0", "1">>, <<"a", "0">>, <<"f", "f">>}
SigTopPairs == {<<"0", "0">>, <<"0", "1">>, <<"7", "f">>}
SigTailPairs == {<<"0", "0">>, <<"f", "f">>}

\* neon_tx_sig: '0x' and the bytes in hex (the first four and one more)
NeonTxSigs ==
    {<<"0", "x">> \o p1 \o p2 \o p3 \o p4 \o p5 :
        p1 \in SigBytePairs, p2 \in SigBytePairs, p3 \in SigBytePairs,
        p4 \in SigTopPairs, p5 \in SigTailPairs}

\* ElfParams().treasury_pool_max
TreasuryPoolMaxes == {1, 2, 7, 300, 65537}

HexVal(ch) == (CHOOSE d \in 1..16 : HexDigits[d] = ch) - 1

\* bytes.fromhex
RECURSIVE FromHex(_)
FromHex(str) ==
    IF Len(str) < 2 THEN <<>>
    ELSE <<16 * HexVal(str[1]) + HexVal(str[2])>> \o FromHex(SubSeq(str, 3, Len(str)))

\* neon_tx_sig[2:]
DropPrefix(str) == SubSeq(str, 3, Len(str))

FromBytesLittle_big(bytes) ==
    IF Len(bytes) = 0 THEN 0
    ELSE bytes[4] + 256 * bytes[3] + 65536 * bytes[2] + 16777216 * bytes[1]

\* int().from_bytes(b, 'little')
RECURSIVE FromBytesLittle(_)
FromBytesLittle(bytes) ==
    IF Len(bytes) = 0 THEN 0
    ELSE bytes[1] + 256 * FromBytesLittle(Tail(bytes))

\* n.to_bytes(len, 'little')
ToBytesLittle(n, len) == [i \in 1..len |-> (n \div (256 ^ (i - 1))) % 256]

\* treasury_pool_index
TreasuryPoolIndex(sig_bytes, pool_max) == FromBytesLittle(SubSeq(sig_bytes, 1, 4)) % pool_max

InitBuilder ==
    /\ LadderAtRest
    /\ SendAtRest
    /\ CacheAtRest
    /\ CallAtRest
    /\ CountAtRest
    /\ ProxyAtRest
    /\ StartAtRest
    /\ LoopAtRest
    /\ b_sig \in NeonTxSigs
    /\ b_pool_max \in TreasuryPoolMaxes
    /\ b_pc = "new"
    /\ b_sig_bytes = <<>>
    /\ b_buf = <<>>

\* self._neon_tx_sig = bytes.fromhex(neon_tx_sig[2:])
SetNeonTxSig ==
    /\ b_pc = "new"
    /\ b_sig_bytes' = FromHex(DropPrefix(b_sig))
    /\ b_pc' = "sig"
    /\ UNCHANGED <<b_sig, b_pool_max, b_buf>>

\* treasury_pool_index and self._treasury_pool_index_buf
SetTreasuryPoolIndex ==
    /\ b_pc = "sig"
    /\ b_buf' = ToBytesLittle(TreasuryPoolIndex(b_sig_bytes, b_pool_max), 4)
    /\ b_pc' = "built"
    /\ UNCHANGED <<b_sig, b_pool_max, b_sig_bytes>>

notBuilderVars == <<ladderVars, rpcVars, startVars, loopVars>>

NextBuilder ==
    \/ SetNeonTxSig /\ UNCHANGED notBuilderVars
    \/ SetTreasuryPoolIndex /\ UNCHANGED notBuilderVars

SpecBuilder == InitBuilder /\ [][NextBuilder]_vars

\* ------------------------------------------- NeonRpcApiWorker.__init__

CanAcquire_noLock(owner) == owner >= 0

\* proxy_id_glob.get_lock() can be entered
CanAcquire(owner) == owner = 0

InitProxy ==
    /\ LadderAtRest
    /\ SendAtRest
    /\ CacheAtRest
    /\ CallAtRest
    /\ CountAtRest
    /\ StartAtRest
    /\ LoopAtRest
    /\ BuilderAtRest
    /\ p_value = 0
    /\ p_lock = 0
    /\ p_pc = [w \in Workers |-> "new"]
    /\ p_id = [w \in Workers |-> -1]
    /\ p_tmp = [w \in Workers |-> 0]

\* with self.proxy_id_glob.get_lock():
AcquireLock(w) ==
    /\ p_pc[w] = "new"
    /\ CanAcquire(p_lock)
    /\ p_lock' = w
    /\ p_pc' = [p_pc EXCEPT ![w] = "assign"]
    /\ UNCHANGED <<p_value, p_id, p_tmp>>

\* self.proxy_id = self.proxy_id_glob.value
AssignProxyId(w) ==
    /\ p_pc[w] = "assign"
    /\ p_id' = [p_id EXCEPT ![w] = p_value]
    /\ p_pc' = [p_pc EXCEPT ![w] = "read"]
    /\ UNCHANGED <<p_value, p_lock, p_tmp>>

\* self.proxy_id_glob.value += 1, the read
ReadCounter(w) ==
    /\ p_pc[w] = "read"
    /\ p_tmp' = [p_tmp EXCEPT ![w] = p_value]
    /\ p_pc' = [p_pc EXCEPT ![w] = "write"]
    /\ UNCHANGED <<p_value, p_lock, p_id>>

\* self.proxy_id_glob.value += 1, the write
WriteCounter(w) ==
    /\ p_pc[w] = "write"
    /\ p_value' = p_tmp[w] + 1
    /\ p_pc' = [p_pc EXCEPT ![w] = "release"]
    /\ UNCHANGED <<p_lock, p_id, p_tmp>>

\* the end of the with block
ReleaseLock(w) ==
    /\ p_pc[w] = "release"
    /\ p_lock' = 0
    /\ p_pc' = [p_pc EXCEPT ![w] = "done"]
    /\ UNCHANGED <<p_value, p_id, p_tmp>>

notProxyVars == <<ladderVars, sendVars, cacheVars, callVars, countVars, otherVars>>

NextProxy ==
    \/ \E w \in Workers : AcquireLock(w) /\ UNCHANGED notProxyVars
    \/ \E w \in Workers : AssignProxyId(w) /\ UNCHANGED notProxyVars
    \/ \E w \in Workers : ReadCounter(w) /\ UNCHANGED notProxyVars
    \/ \E w \in Workers : WriteCounter(w) /\ UNCHANGED notProxyVars
    \/ \E w \in Workers : ReleaseLock(w) /\ UNCHANGED notProxyVars

SpecProxy == InitProxy /\ [][NextProxy]_vars

\* ------------------------------------------------------------------ claims
\* an execute() call ended by raising err to its caller
Raised(err) == pc = "idle" /\ calls > 0 /\ result = err

\* C1: across all execute() calls on one context the recorded strategy_idx never
\* decreases, and the strategy under construction or running never has an index
\* below ctx.strategy_idx.
C1_LadderMonotonic ==
    [][strategy_idx' >= strategy_idx /\ (pc' # "idle" => cur' >= strategy_idx')]_vars
\* a re-entered call recorded, for its first strategy, an index above 0
C1_Witness == calls = 2 /\ attempts = 1 /\ lastOp = "init" /\ strategy_idx > 0

\* C2 (as claimed): once the receipt is completed, prep_before_emulate() is not
\* called any more.
C2_NoPrepAfterCompleted == ~(completed /\ lastOp = "prep")
\* C2 (amended): once the receipt is completed, no attempt re-emulates the
\* transaction; prep_before_emulate() is still called in every retry round.
C2_NoEmulateAfterCompleted == ~(completed /\ (pc = "emulate" \/ lastOp = "emulate"))
\* a later call passed the place of the re-emulation with a completed receipt
C2_Witness == completed /\ calls = 2 /\ lastOp = "update" /\ retry = 0

\* C3: once the receipt is completed, every strategy constructed or run is the
\* one whose index was recorded when the receipt completed.
C3_NoAdvanceAfterCompleted ==
    (completed /\ pc \notin {"idle", "loop"}) => cur = completed_idx

\* C4 (as claimed): an attempt that raised WrongStrategy is, with a completed
\* receipt, cancelled and WrongStrategy reaches the caller; without one it is
\* not cancelled and the loop goes on with the next index.
C4_WrongStrategy_AsClaimed ==
    [][(pc = "finally" /\ orig_exc = WrongStrategyError) =>
         IF completed
         THEN cancelled /\ pc' = "idle" /\ result' = WrongStrategyError
         ELSE ~cancelled /\ pc' = "loop" /\ cur' = cur + 1 /\ result' = NoExc]_vars
\* C4 (amended): as claimed, except that a Reschedule raised by cancel() reaches
\* the caller in place of WrongStrategy.
C4_WrongStrategy ==
    [][(pc = "finally" /\ orig_exc = WrongStrategyError) =>
         IF completed
         THEN /\ cancelled
              /\ pc' = "idle"
              /\ result' = (IF cancel_exc = RescheduleError THEN RescheduleError
                            ELSE WrongStrategyError)
         ELSE ~cancelled /\ pc' = "loop" /\ cur' = cur + 1 /\ result' = NoExc]_vars
\* WrongStrategy after a completed receipt was cancelled and reached the caller
C4_Witness == Raised(WrongStrategyError) /\ orig_exc = WrongStrategyError /\ completed /\ cancelled

\* C5: an attempt that raised Reschedule (from validate, complete_init, prep,
\* the re-emulation, update or execute) is not cancelled, no further strategy is
\* constructed, and Reschedule reaches the caller.
C5_ReschedulePropagates ==
    [][(pc = "finally" /\ orig_exc = RescheduleError) =>
         /\ ~cancelled
         /\ cancel_cnt = 0
         /\ pc' = "idle"
         /\ result' = RescheduleError
         /\ attempts' = attempts
         /\ cancel_cnt' = 0]_vars
\* the second strategy of a call raised Reschedule before any receipt completed,
\* and the caller got it with no cancel() made
C5_Witness ==
    /\ Raised(RescheduleError)
    /\ orig_exc = RescheduleError
    /\ ~completed
    /\ cancel_cnt = 0
    /\ attempts = 2

\* the failures of an attempt that are neither Reschedule nor WrongStrategy
OtherFailureKinds == {"Other", "NoMoreRetries", "NonceTooLow", "NonceTooHigh"}

\* C6 (as claimed): an attempt that ended in any other failure is cancelled and
\* that same failure reaches the caller.
C6_OtherFailure_AsClaimed ==
    [][(pc = "finally" /\ orig_exc.kind \in OtherFailureKinds) =>
         cancelled /\ pc' = "idle" /\ result' = orig_exc /\ attempts' = attempts]_vars
\* C6 (amended): as claimed, except that a Reschedule raised by cancel() reaches
\* the caller in place of the failure.
C6_OtherFailure ==
    [][(pc = "finally" /\ orig_exc.kind \in OtherFailureKinds) =>
         /\ cancelled
         /\ pc' = "idle"
         /\ result' = (IF cancel_exc = RescheduleError THEN RescheduleError ELSE orig_exc)
         /\ attempts' = attempts]_vars
\* NoMoreRetries was cancelled and reached the caller
C6_Witness == Raised(NoMoreRetriesError) /\ orig_exc = NoMoreRetriesError /\ cancelled

\* C7 (as claimed): when cancel() fails, the failure F the ladder was handling
\* reaches the caller.
C7_CancelBestEffort_AsClaimed ==
    [][(pc = "finally" /\ cancelled /\ cancel_exc # NoExc) =>
         pc' = "idle" /\ result' = orig_exc]_vars
\* C7 (amended): when cancel() fails with anything but Reschedule, F reaches the
\* caller; a Reschedule raised by cancel() is re-raised and reaches the caller
\* in place of F.
C7_CancelBestEffort ==
    [][(pc = "finally" /\ cancelled /\ cancel_exc # NoExc) =>
         /\ pc' = "idle"
         /\ result' = (IF cancel_exc = RescheduleError THEN RescheduleError ELSE orig_exc)]_vars
\* cancel() failed and the caller got the failure that was being handled
C7_Witness == Raised(OtherError) /\ orig_exc = OtherError /\ cancelled /\ cancel_exc = CancelFailedError

\* C8: whenever execute() has returned or raised, or stands at the loop head
\* about to construct the next strategy, state_tx_cnt was re-read from the
\* Chain after the last operation of the preceding attempt.
C8_RefreshAfterAttempt == (pc \in {"idle", "loop"} /\ attempts > 0) => fresh
\* the loop advanced after a WrongStrategy and the nonce was re-read
C8_Witness == pc = "loop" /\ attempts > 0 /\ orig_exc = WrongStrategyError /\ fresh

\* C9: entering execute() without a completed receipt re-reads state_tx_cnt and
\* goes on to the strategies iff it equals the nonce; above it NonceTooLow
\* (sender, nonce, state_tx_cnt), below it NonceTooHigh, both without any
\* strategy; with a completed receipt there is no check.
C9_EntryNonceGate ==
    [][(calls' = calls + 1) =>
         IF ~completed
         THEN /\ lastOp' = "validate_nonce"
              /\ fresh' = TRUE
              /\ (pc' = "loop") = (state_tx_cnt' = nonce)
              /\ (state_tx_cnt' > nonce =>
                    /\ pc' = "idle"
                    /\ result' = NonceTooLowError(Sender, nonce, state_tx_cnt')
                    /\ attempts' = 0
                    /\ cancel_cnt' = 0)
              /\ (state_tx_cnt' < nonce =>
                    /\ pc' = "idle"
                    /\ result' = NonceTooHighError
                    /\ attempts' = 0
                    /\ cancel_cnt' = 0)
         ELSE /\ lastOp' = "enter"
              /\ pc' = "loop"
              /\ state_tx_cnt' = state_tx_cnt]_vars
\* the entry check refused the tx with NonceTooLow before any strategy
C9_Witness ==
    /\ Raised(NonceTooLowError(Sender, nonce, state_tx_cnt))
    /\ state_tx_cnt > nonce
    /\ attempts = 0
    /\ lastOp = "validate_nonce"

\* C10: with a completed receipt, a failure that reaches the caller, other than
\* Reschedule, was preceded in that call by a cancel().
C10_FailureAfterCompletedCancelled ==
    (pc = "idle" /\ calls > 0 /\ completed /\ result.kind \notin {"None", "Ok", "Reschedule"})
        => cancel_cnt > 0

\* C11: execute() raises BigTx exactly when the loop reaches the end of the
\* ladder: every strategy from the start index on was left with `continue`
\* (rejected by validate(), or WrongStrategy without a completed receipt), none
\* returned, none propagated a failure, none was cancelled.
C11_BigTxExactly ==
    [][/\ (pc = "loop" /\ cur >= LadderLen) => (pc' = "idle" /\ result' = BigTxError)
       /\ (pc # "idle" /\ pc' = "idle" /\ result' = BigTxError) =>
            /\ pc = "loop"
            /\ cur = LadderLen
            /\ cancel_cnt = 0
            /\ exc = NoExc
            /\ attempts > 0 => pending = "continue"
       /\ (pc = "finally" /\ pending = "continue") =>
            \/ orig_exc = NoExc /\ lastOp = "validate"
            \/ orig_exc = WrongStrategyError /\ ~completed]_vars
\* the whole ladder was tried and found not applicable
C11_Witness == Raised(BigTxError) /\ attempts = LadderLen /\ cancel_cnt = 0 /\ ~completed

\* C12: an attempt calls prep_before_emulate() at most retry_on_fail times; when
\* all its rounds reported changes it ends with NoMoreRetries, after exactly
\* retry_on_fail preparations (none for retry_on_fail = 0) and no execute().
C12_PrepBounded ==
    [][/\ preps' <= retry_on_fail
       /\ pc = "retry" => preps = retry
       /\ (pc = "retry" /\ preps = retry_on_fail) =>
            (pc' = "except" /\ exc' = NoMoreRetriesError /\ lastOp \in {"init", "update"})
       /\ (pc' = "except" /\ orig_exc' = NoMoreRetriesError) =>
            (pc = "retry" /\ preps' = retry_on_fail)]_vars
\* every round of the attempt reported changes and it ended with NoMoreRetries
C12_Witness ==
    /\ pc = "except"
    /\ orig_exc = NoMoreRetriesError
    /\ retry_on_fail = MaxRetryOnFail
    /\ preps = retry_on_fail
    /\ has_changes

\* C13: for a stuck tx the Emulator is never invoked and the emulated result is
\* never replaced; the re-emulation step returns at once, reading no nonce and
\* raising nothing.
C13_StuckNeverEmulates ==
    [][is_stuck_tx =>
         /\ emulated_result' = "from_request"
         /\ lastOp' # "emulate"
         /\ pc = "emulate" =>
              (pc' = "update" /\ state_tx_cnt' = state_tx_cnt /\ exc' = exc /\ fresh' = fresh)]_vars
\* a stuck tx passed the place of the re-emulation
C13_Witness == is_stuck_tx /\ ~completed /\ pc = "update" /\ lastOp = "prep" /\ emulated_result = "from_request"

\* C14 as stated: when the mempool answered the submit, the client gets the
\* signature for Success, 'replacement transaction underpriced' for Underprice,
\* the nonce-too-low error with (sender, tx nonce, state_tx_cnt of the result)
\* for NonceTooLow and 'unknown error' for any other code.
C14_CodeDeterminesOutcome ==
    (s_pc = "idle" /\ s_code # "None") =>
        s_out = CASE s_code = "Success" -> TxSig
                  [] s_code = "Underprice" -> EthereumError("replacement transaction underpriced")
                  [] s_code = "NonceTooLow" -> NonceTooLowError(Sender, s_nonce, s_code_cnt)
                  [] OTHER -> EthereumError("unknown error")

\* C14 amended: Success and AlreadyKnown return the signature at once. For any
\* other code the duplicate check is repeated before the failure is reported:
\* the client gets the signature if the mempool knows the tx by then, the
\* failure of the repeated check if it fails ('already known' when the indexer
\* has the tx by then), and only otherwise the failure determined by the code
\* (Underprice, NonceTooLow with the result's state_tx_cnt, 'unknown error').
C14_SendResultTranslated ==
    (s_pc = "idle" /\ s_code # "None") =>
        IF s_code \in {"Success", "AlreadyKnown"}
        THEN s_out = TxSig /\ s_exist2 = NoExc
        ELSE /\ s_exist2 # NoExc
             /\ s_exist2 = ExistTrue => s_out = TxSig
             /\ s_exist2 = ExistFalse =>
                  s_out = CASE s_code = "Underprice" -> EthereumError("replacement transaction underpriced")
                            [] s_code = "NonceTooLow" -> NonceTooLowError(Sender, s_nonce, s_code_cnt)
                            [] OTHER -> EthereumError("unknown error")
             /\ s_exist2 \notin {ExistTrue, ExistFalse} => s_out = s_exist2
             /\ s_seen2[1] => s_out = EthereumError("already known")

\* the mempool answered NonceTooLow, the repeated duplicate check found nothing,
\* the client got the nonce-too-low error with the result's state_tx_cnt
C14_Witness ==
    /\ s_pc = "idle"
    /\ s_code = "NonceTooLow"
    /\ s_exist2 = ExistFalse
    /\ s_out = NonceTooLowError(Sender, s_nonce, s_code_cnt)

\* C15: a tx with nonce N whose sender has state_tx_cnt N+1 on the Chain, not
\* indexed and not known to the mempool, is never handed to send_raw_transaction
\* and the call fails with nonce too low (sender, N, N+1); send_raw_transaction
\* is called only after the first duplicate check answered False (not indexed,
\* not in the mempool, nonce precheck passed) and the exec cfg precheck passed.
C15_NoSubmitOnLowNonce ==
    /\ s_submitted => (s_exist1 = ExistFalse /\ s_cfg_ok)
    /\ s_cfg_ok => s_exist1 = ExistFalse
    /\ s_exist1 = ExistFalse => (~s_seen1[1] /\ ~s_seen1[2] /\ s_seen1[3] <= s_nonce)
    /\ s_seen1 = <<FALSE, FALSE, s_nonce + 1>> =>
         (~s_submitted /\ s_exist1 = NonceTooLowError(Sender, s_nonce, s_nonce + 1))
    /\ (s_pc = "idle" /\ s_seen1 = <<FALSE, FALSE, s_nonce + 1>> /\ s_seen2 = s_seen1) =>
         s_out = NonceTooLowError(Sender, s_nonce, s_nonce + 1)

\* the call ended with nonce too low (sender, N, N+1) and nothing was submitted
C15_Witness ==
    /\ s_pc = "idle"
    /\ s_seen1 = <<FALSE, FALSE, s_nonce + 1>>
    /\ s_seen2 = s_seen1
    /\ s_out = NonceTooLowError(Sender, s_nonce, s_nonce + 1)
    /\ ~s_submitted

\* C16: a read of the gas price whose refresh RPC returned no value leaves the
\* cached value as it was and gives it to the caller; a refresh that returned a
\* value replaces the cached value; the read fails exactly when no value was
\* ever obtained since the worker started.
C16_GasPriceKeptOnFailure ==
    c_op = "gas" =>
        /\ (c_rpc /\ c_res = None) =>
             /\ gas_price_value = c_prev
             /\ c_out = IF c_prev = None THEN GasPriceFailed ELSE c_prev
        /\ (c_rpc /\ c_res # None) => (gas_price_value = c_res /\ c_out = c_res)
        /\ (c_out = GasPriceFailed) <=> (gas_ok_time = 0)
        /\ (c_out # GasPriceFailed) => c_out \in MPGasPriceResult

\* a refresh failed after a value had been obtained: the caller got that value
C16_Witness ==
    /\ c_op = "gas"
    /\ c_rpc
    /\ c_res = None
    /\ c_prev \in MPGasPriceResult
    /\ c_out = c_prev
    /\ gas_price_value = c_prev

\* C17: a read of either cache in the second of that cache's last successful
\* refresh performs no mempool RPC.
C17_NoRpcWithinSameSecond ==
    (c_op # "none" /\ c_fresh) => ~c_rpc

\* C18: when get_elf_param_dict returns no value after params were obtained
\* earlier, is_allowed_api keeps the params and does not fail the caller with
\* the read failure; it fails so only if no params were ever obtained.
C18_ElfParamsKeptOnFailure ==
    (c_op = "api" /\ c_rpc /\ c_res = None) =>
        /\ elf_param_dict = c_prev
        /\ (c_out = ElfParamsFailed) <=> (c_prev = None)

\* C19: is_allowed_api allows an always-allowed method whenever EVM params are
\* known, whatever the versions; with params known, any other eth_/net_/web3_/
\* neon_ method but neon_proxyVersion is allowed only if the versions are
\* compatible, and the call fails with the incompatibility error if they are not.
C19_ApiGating ==
    c_op = "api" =>
        /\ (c_method \in AlwaysAllowedMethods /\ HasParams(elf_param_dict)) => c_out = ApiAllowed
        /\ (/\ HasApiPrefix(c_method)
            /\ c_method \notin AlwaysAllowedMethods \cup {ProxyVersionMethod}
            /\ HasParams(elf_param_dict)) =>
             /\ c_out = ApiAllowed => IsEvmCompatible(elf_param_dict)
             /\ ~IsEvmCompatible(elf_param_dict) => c_out = NotCompatible

MaxEmulations == IF retry_on_fail > 1 THEN retry_on_fail ELSE 1

\* C20: a call of eth_call whose arguments pass the checks invokes the Emulator
\* at least once and at most max(1, retry_on_fail) times; it invokes it again
\* only after a Reschedule and only while fewer than max(1, retry_on_fail)
\* invocations were made (so the loop ends); it returns '0x' + the result of
\* the first invocation that did not fail, propagates Reschedule after the last
\* allowed invocation and any other failure at once.
C20_EthCallRetriesBounded ==
    /\ e_emulations <= MaxEmulations
    /\ e_pc = "emulate" =>
         /\ e_emulations < MaxEmulations
         /\ e_emulations = retry_idx
         /\ e_emulations > 0 => e_last = RescheduleError
    /\ e_pc = "check" => (e_emulations >= 1 /\ e_last.kind = "emulator_json")
    /\ (e_pc = "idle" /\ e_calls > 0) =>
         IF e_out \in InvalidParamErrors THEN e_emulations = 0
         ELSE /\ e_emulations >= 1
              /\ e_last.kind = "emulator_json" =>
                   e_out = IF e_last.args[1] = "succeed" THEN Hex0x(e_last.args[2])
                           ELSE EthereumError("execution reverted")
              /\ e_last = RescheduleError => (e_out = RescheduleError /\ e_emulations = MaxEmulations)
              /\ e_last.kind \notin {"emulator_json", RescheduleError.kind} => e_out = e_last

\* every allowed invocation gave Reschedule and the call propagated it
C20_Witness ==
    /\ e_pc = "idle"
    /\ retry_on_fail = MaxRetryOnFail
    /\ e_emulations = retry_on_fail
    /\ e_last = RescheduleError
    /\ e_out = RescheduleError

\* C21: when no read fails, eth_getTransactionCount returns, in hex, for
\* pending the larger of the Chain's nonce and the mempool's pending nonce, for
\* latest the larger of the Chain's nonce and the mempool's any-state nonce
\* (both with the Chain read at processed commitment, a missing mempool nonce
\* counting as 0), for finalized and safe the Chain's nonce at finalized
\* commitment, for any other valid tag the Chain's nonce at confirmed commitment.
C21_TransactionCount ==
    (t_pc = "idle" /\ t_out # NoExc /\ ~t_failed /\ t_tag \in ValidTags) =>
        CASE t_tag = "pending" ->
               /\ t_mp_rpc[1] = "get_pending_tx_nonce"
               /\ \/ t_out = Hex(t_chain["Processed"]) /\ t_chain["Processed"] >= OrZero(t_mp_rpc[2])
                  \/ t_out = Hex(OrZero(t_mp_rpc[2])) /\ OrZero(t_mp_rpc[2]) >= t_chain["Processed"]
          [] t_tag = "latest" ->
               /\ t_mp_rpc[1] = "get_mempool_tx_nonce"
               /\ \/ t_out = Hex(t_chain["Processed"]) /\ t_chain["Processed"] >= OrZero(t_mp_rpc[2])
                  \/ t_out = Hex(OrZero(t_mp_rpc[2])) /\ OrZero(t_mp_rpc[2]) >= t_chain["Processed"]
          [] t_tag \in {"finalized", "safe"} ->
               t_mp_rpc = <<>> /\ t_out = Hex(t_chain["Finalized"])
          [] OTHER ->
               t_mp_rpc = <<>> /\ t_out = Hex(t_chain["Confirmed"])

\* tag pending, the mempool's pending nonce above the Chain's: the mempool's is returned
C21_Witness ==
    /\ t_pc = "idle"
    /\ ~t_failed
    /\ t_tag = "pending"
    /\ t_mp_rpc = <<"get_pending_tx_nonce", <<MaxNonce + 1>>>>
    /\ t_chain["Processed"] < MaxNonce + 1
    /\ t_out = Hex(MaxNonce + 1)

C23_LoopSurvivesFailures ==
    [][/\ l_running'
       /\ (l_pc = "call" /\ l_last' # NoExc) => (l_pc' = "log" /\ l_calls' = l_calls + 1)
       /\ (l_pc = "call" /\ l_last' = NoExc) => (l_pc' = "sleep" /\ l_calls' = l_calls + 1)
       /\ l_pc = "log" => (l_pc' = "sleep" /\ l_logs' = l_logs + 1 /\ l_calls' = l_calls)
       /\ l_pc = "sleep" => (l_pc' = "call" /\ l_sleeps' = l_sleeps + 1 /\ l_calls' = l_calls)
       /\ l_pc' = "call" => l_sleeps' = l_calls'
       /\ l_pc' \in {"log", "sleep"} => l_sleeps' = l_calls' - 1]_vars

\* the first call raised, was logged and slept after, and process_functions()
\* was called again and returned
C23_Witness ==
    /\ l_running
    /\ l_pc = "sleep"
    /\ l_calls = 2
    /\ l_logs = 1
    /\ l_sleeps = 1
    /\ l_last = NoExc

\* the i-th byte of the signature, read from its hex text
SigByte(i) == 16 * HexVal(b_sig[2 * i + 1]) + HexVal(b_sig[2 * i + 2])
SigU32 == SigByte(1) + 256 * SigByte(2) + 65536 * SigByte(3) + 16777216 * SigByte(4)
BufU32 == b_buf[1] + 256 * b_buf[2] + 65536 * b_buf[3] + 16777216 * b_buf[4]

\* C24: the treasury pool index buffer is four bytes that read as a
\* little-endian u32 give (the first four bytes of the signature read as a
\* little-endian u32) mod treasury_pool_max, a value in [0, treasury_pool_max)
\* fixed by the signature and treasury_pool_max alone.
C24_TreasuryPoolIndex ==
    b_pc = "built" =>
        /\ Len(b_buf) = 4
        /\ \A i \in 1..4 : b_buf[i] \in 0..255
        /\ BufU32 = SigU32 % b_pool_max
        /\ BufU32 >= 0
        /\ BufU32 < b_pool_max

\* an index of more than one byte that differs from the signature's u32
C24_Witness ==
    /\ b_pc = "built"
    /\ BufU32 >= 256
    /\ BufU32 < SigU32
    /\ b_buf[2] # 0

\* the workers whose construction left the locked block
Constructed == {w \in Workers : p_pc[w] = "done"}

\* C25: in every interleaving of worker constructions the counter never
\* decreases and a worker's proxy_id, once assigned, never changes; no two
\* workers hold the same proxy_id; and whenever no construction is inside the
\* locked block the n workers constructed so far hold exactly the ids 0..n-1
\* and the counter is n.
C25_ProxyIdsDistinct ==
    [][/\ p_value' >= p_value
       /\ \A w \in Workers : p_id[w] # -1 => p_id'[w] = p_id[w]
       /\ \A v, w \in Workers : (v # w /\ p_id'[v] # -1) => p_id'[v] # p_id'[w]
       /\ p_lock' = 0 =>
            /\ {p_id'[w] : w \in {x \in Workers : p_pc'[x] = "done"}} =
                   0..(Cardinality({x \in Workers : p_pc'[x] = "done"}) - 1)
            /\ p_value' = Cardinality({x \in Workers : p_pc'[x] = "done"})
            /\ \A w \in Workers : p_pc'[w] \in {"new", "done"}]_vars

\* all workers constructed: ids 0..MaxWorkers-1, counter MaxWorkers
C25_Witness ==
    /\ Constructed = Workers
    /\ p_value = MaxWorkers
    /\ {p_id[w] : w \in Workers} = 0..(MaxWorkers - 1)
    /\ p_id[1] = MaxWorkers - 1

\* C26: within an attempt strategy.execute() is reached only in a round whose
\* prep_before_emulate() reported no changes and after at least one call of
\* update_after_emulate() in that attempt; a round whose preparation reported
\* changes never executes: once its update returned it is counted and the
\* retry loop is at its head again, where the next round, if the budget has
\* one, starts with prep_before_emulate().
C26_ExecuteAfterUpdate ==
    [][/\ pc' = "exec" => (~has_changes' /\ updates' >= 1 /\ lastOp' \in {"prep", "update"})
       /\ (pc = "prep" /\ has_changes') => pc' \in {"prep", "emulate", "update", "except"}
       /\ (pc = "update" /\ has_changes) =>
            \/ pc' = "retry" /\ retry' = retry + 1 /\ updates' = updates + 1
            \/ pc' = "except"
            \/ UNCHANGED vars
       /\ (pc = "retry" /\ HasRetry(retry, retry_on_fail)) => pc' \in {"retry", "prep"}]_vars
\* strategy.execute() is about to be called in the second round: the first
\* round's preparation made changes and was updated, the second made none
C26_Witness == pc = "exec" /\ retry = 1 /\ updates = 1 /\ preps = 2 /\ lastOp = "prep"

\* C27 (as claimed): whenever strategy.execute() is about to be called,
\* state_tx_cnt was re-read from the Chain earlier in the same execute() call
\* of the ladder and after the previous call of strategy.execute() in it.
C27_RefreshBeforeExecute_AsClaimed == pc = "exec" => refreshed
\* C27 (amended): as claimed, except in the first attempt of an execute() call
\* that was entered with the receipt already completed: there the entry check
\* and the re-emulation are both skipped and nothing re-reads state_tx_cnt
\* before strategy.execute().
C27_RefreshBeforeExecute ==
    pc = "exec" => (refreshed <=> ~(completed /\ attempts = 1))
\* the second attempt of a call is about to execute; the finally clause of the
\* first attempt re-read state_tx_cnt
C27_Witness == pc = "exec" /\ attempts = 2 /\ refreshed /\ completed /\ lastOp = "update"

\* C28: no step of the ladder changes the completed-receipt flag of the context
\* from true to false, and the only step that changes it at all is the one
\* that calls strategy.execute().
C28_CompletedNeverReset ==
    [][/\ completed => completed'
       /\ completed' # completed => pc = "exec"]_vars
\* strategy.execute() ran in a strategy after the one that completed the
\* receipt, and the flag is still set
C28_Witness ==
    /\ completed
    /\ lastOp = "execute"
    /\ completed_idx >= 0
    /\ strategy_idx > completed_idx

\* C29: within one execute() call cancel() is invoked at most once, and once it
\* was invoked the call does nothing but run the finally clause and hand a
\* failure to the caller: no strategy is constructed, validated, prepared or
\* executed after it.
C29_CancelEndsCall ==
    /\ cancel_cnt <= 1
    /\ cancel_cnt > 0 =>
         IF pc = "idle"
         THEN result \notin {NoExc, Ok}
         ELSE pc = "finally" /\ pending = "raise" /\ lastOp = "cancel"
\* the second strategy of a call was cancelled and the caller got the failure
C29_Witness == pc = "idle" /\ cancel_cnt = 1 /\ attempts = 2 /\ result = OtherError

\* the nonce failures raised by _validate_nonce()
NonceFailureKinds == {"NonceTooLow", "NonceTooHigh"}

\* C30 (as claimed): a nonce mismatch found by the re-emulation inside an
\* attempt makes the ladder call cancel() on the strategy, and the nonce
\* failure reaches the caller.
C30_NonceMismatchInAttempt_AsClaimed ==
    [][(pc = "finally" /\ orig_exc.kind \in NonceFailureKinds) =>
         /\ cancel_cnt = 1
         /\ completed_idx = -1
         /\ pc' = "idle"
         /\ result' = orig_exc]_vars
\* C30 (amended): as claimed, except that a Reschedule raised by cancel() reaches
\* the caller in place of the nonce failure; no strategy.execute() was called
\* in the attempt, and the nonce check at entry fails without any cancel().
C30_NonceMismatchInAttempt ==
    [][/\ (pc = "emulate" /\ pc' = "except" /\ orig_exc'.kind \in NonceFailureKinds) =>
            /\ ~completed
            /\ orig_exc' = ValidateNonce(state_tx_cnt', nonce)
            /\ Handler(orig_exc', completed) = "cancel"
       /\ (pc = "finally" /\ orig_exc.kind \in NonceFailureKinds) =>
            /\ cancel_cnt = 1
            /\ lastOp = "cancel"
            /\ pc' = "idle"
            /\ result' = (IF cancel_exc = RescheduleError THEN RescheduleError ELSE orig_exc)
       /\ (calls' = calls + 1 /\ pc' = "idle") =>
            /\ result'.kind \in NonceFailureKinds
            /\ cancel_cnt' = 0]_vars
\* the re-emulation of the second round found the nonce too low; the strategy
\* was cancelled and the caller got NonceTooLow
C30_Witness ==
    /\ pc = "idle"
    /\ result.kind = "NonceTooLow"
    /\ orig_exc = result
    /\ cancel_cnt = 1
    /\ retry = 1
    /\ ~completed

====
